---- MODULE Spec2Model ----
(***************************************************************************)
(* The CSS selector builder of src/06-objects-tasks.js: six constructors   *)
(* (Element, Id, Class, Attr, PseudoClass, PseudoElement), each carrying   *)
(* its own copy of the six append methods and of stringify, the Combine    *)
(* class, and the cssSelectorBuilder facade.                                *)
(*                                                                         *)
(* A method is an operator from the receiver's fields (and the argument)   *)
(* to the fields after the call and the error thrown, statement by         *)
(* statement: s1, s2, ... are the receiver after each assignment, so an    *)
(* assignment made before a throw stays made.                              *)
(***************************************************************************)
EXTENDS Integers, Sequences, FiniteSets, TLC

\* ---------------------------------------------------------------- bounds
\* the widths and heights given to a rectangle are -MaxDim..MaxDim
MaxDim == 2
\* append calls (successful or failed) made on the builder of Spec
MaxCalls == 3
\* builders alive in SpecCombine
MaxBuilders == 2
\* combined selectors built in SpecCombine
MaxCombined == 2
\* append calls (successful or failed) made in SpecCombine, all builders together
MaxCombineCalls == 1
\* append calls (successful or failed) made in SpecTwins, both builders together
MaxTwinCalls == 1

\* the raw value strings passed by callers
Values == {"a", "b"}
\* the value strings passed by callers in SpecCombine
CombineValues == {"a"}
\* the value strings passed by callers in SpecTwins: with them a pseudoClass
\* builder and a pseudoElement builder can come to the same text
TwinValues == {":a", "b", "a::b"}
\* combinator tokens passed to combine: the descendant combinator (one space)
\* and a string that is no combinator
Tokens == {" ", "?"}

\* ------------------------------------------------------------- the state
VARIABLES
  builders,  \* builders[i]: the fields of the i-th builder object, or NoBuilder
  combined,  \* the Combine objects, in creation order
  seed,      \* seed[i]: the entry point that made builder i and the value it was given
  calls,     \* calls[i]: the append calls made on builder i, in call order, each with its outcome
  made,      \* made[j]: what combine was given when it built combined[j]
  last,      \* the call made last, what it was made on and what came of it
  rect,      \* the object Rectangle returned, with the values its fields have now
  rectArgs,  \* the arguments Rectangle was called with
  lastRect,  \* the use made last of the rectangle and what it returned
  jsonCall   \* the object given to getJSON, the text returned, and what fromJSON made of it

objvars == <<rect, rectArgs, lastRect, jsonCall>>

vars == <<builders, combined, seed, calls, made, last, objvars>>

\* ------------------------------------------------------------ the source
NULL == "null"
NoError == "no error"
NoBuilder == [ctor |-> "none"]

ORDER == <<"element", "id", "class", "attribute", "pseudoClass", "pseudoElement">>

\* Array.prototype.indexOf: the 0-based position of x in arr, -1 when absent
indexOf(arr, x) ==
  IF \E i \in 1..Len(arr) : arr[i] = x
  THEN (CHOOSE i \in 1..Len(arr) : arr[i] = x /\ \A j \in 1..(i - 1) : arr[j] # x) - 1
  ELSE -1

\* the occurrence message with "than" and a final period
DuplicateMessage_Reworded == "Element, id and pseudo-element should not occur more than one time inside the selector."

\* the two messages of `throw new Error(...)`
DuplicateMessage == "Element, id and pseudo-element should not occur more then one time inside the selector"
OrderMessage == "Selector parts should be arranged in the following order: element, id, class, attribute, pseudo-class, pseudo-element"

\* `throw new Error(msg)`: the call ends with the receiver as it is now
Throw(s, msg) == [self |-> s, thrown |-> msg]
\* `return this`
Return(s) == [self |-> s, thrown |-> NoError]

\* function Element(name): the fields set by the constructor
Element(name) ==
  [ ctor            |-> "Element",
    selectors       |-> name,
    currentSelector |-> "element",
    prevSelector    |-> NULL,
    elementCount    |-> 1,
    idCount         |-> 0,
    pseudoElemCount |-> 0 ]

\* Element: this.element
Element_element(self, value) ==
  IF self.elementCount > 0
  THEN Throw(self, DuplicateMessage)
  ELSE
    LET s1 == [self EXCEPT !.prevSelector = self.currentSelector]
        s2 == [s1 EXCEPT !.currentSelector = "element"]
    IN  IF indexOf(ORDER, s2.prevSelector) > indexOf(ORDER, s2.currentSelector)
        THEN Throw(s2, OrderMessage)
        ELSE
          LET s3 == [s2 EXCEPT !.selectors = s2.selectors \o value]
          IN  Return(s3)

\* Element: this.id
Element_id(self, value) ==
  IF self.idCount > 0
  THEN Throw(self, DuplicateMessage)
  ELSE
    LET s1 == [self EXCEPT !.prevSelector = self.currentSelector]
        s2 == [s1 EXCEPT !.currentSelector = "id"]
    IN  IF indexOf(ORDER, s2.prevSelector) > indexOf(ORDER, s2.currentSelector)
        THEN Throw(s2, OrderMessage)
        ELSE
          LET s3 == [s2 EXCEPT !.selectors = s2.selectors \o "#" \o value]
              s4 == [s3 EXCEPT !.idCount = s3.idCount + 1]
          IN  Return(s4)

\* Element: this.class
Element_class(self, value) ==
  LET s1 == [self EXCEPT !.prevSelector = self.currentSelector]
      s2 == [s1 EXCEPT !.currentSelector = "class"]
  IN  IF indexOf(ORDER, s2.prevSelector) > indexOf(ORDER, s2.currentSelector)
      THEN Throw(s2, OrderMessage)
      ELSE
        LET s3 == [s2 EXCEPT !.selectors = s2.selectors \o "." \o value]
        IN  Return(s3)

\* this.attr assigning its fragment to the text: = where the method has +=
Element_attr_Overwrite(self, value) ==
  LET s1 == [self EXCEPT !.prevSelector = self.currentSelector]
      s2 == [s1 EXCEPT !.currentSelector = "attribute"]
  IN  IF indexOf(ORDER, s2.prevSelector) > indexOf(ORDER, s2.currentSelector)
      THEN Throw(s2, OrderMessage)
      ELSE
        LET s3 == [s2 EXCEPT !.selectors = "[" \o value \o "]"]
        IN  Return(s3)

\* Element: this.attr
Element_attr(self, value) ==
  LET s1 == [self EXCEPT !.prevSelector = self.currentSelector]
      s2 == [s1 EXCEPT !.currentSelector = "attribute"]
  IN  IF indexOf(ORDER, s2.prevSelector) > indexOf(ORDER, s2.currentSelector)
      THEN Throw(s2, OrderMessage)
      ELSE
        LET s3 == [s2 EXCEPT !.selectors = s2.selectors \o "[" \o value \o "]"]
        IN  Return(s3)

\* Element: this.pseudoClass
Element_pseudoClass(self, value) ==
  LET s1 == [self EXCEPT !.prevSelector = self.currentSelector]
      s2 == [s1 EXCEPT !.currentSelector = "pseudoClass"]
  IN  IF indexOf(ORDER, s2.prevSelector) > indexOf(ORDER, s2.currentSelector)
      THEN Throw(s2, OrderMessage)
      ELSE
        LET s3 == [s2 EXCEPT !.selectors = s2.selectors \o ":" \o value]
        IN  Return(s3)

\* this.pseudoElement appending its text before the occurrence check
Element_pseudoElement_AppendFirst(self, value) ==
  LET s1 == [self EXCEPT !.prevSelector = self.currentSelector]
      s2 == [s1 EXCEPT !.currentSelector = "pseudoElement"]
  IN  IF indexOf(ORDER, s2.prevSelector) > indexOf(ORDER, s2.currentSelector)
      THEN Throw(s2, OrderMessage)
      ELSE
        LET s3 == [s2 EXCEPT !.selectors = s2.selectors \o "::" \o value]
        IN  IF s3.pseudoElemCount > 0
            THEN Throw(s3, DuplicateMessage)
            ELSE
              LET s4 == [s3 EXCEPT !.pseudoElemCount = s3.pseudoElemCount + 1]
              IN  Return(s4)

\* Element: this.pseudoElement
Element_pseudoElement(self, value) ==
  LET s1 == [self EXCEPT !.prevSelector = self.currentSelector]
      s2 == [s1 EXCEPT !.currentSelector = "pseudoElement"]
  IN  IF indexOf(ORDER, s2.prevSelector) > indexOf(ORDER, s2.currentSelector)
      THEN Throw(s2, OrderMessage)
      ELSE
        IF s2.pseudoElemCount > 0
        THEN Throw(s2, DuplicateMessage)
        ELSE
          LET s3 == [s2 EXCEPT !.pseudoElemCount = s2.pseudoElemCount + 1]
              s4 == [s3 EXCEPT !.selectors = s3.selectors \o "::" \o value]
          IN  Return(s4)

\* Element: this.stringify
Element_stringify(self) ==
  self.selectors

\* the constructor leaving idCount at 0
Id_Unseen(name) ==
  [ ctor            |-> "Id",
    selectors       |-> "#" \o name,
    currentSelector |-> "id",
    prevSelector    |-> NULL,
    elementCount    |-> 0,
    idCount         |-> 0,
    pseudoElemCount |-> 0 ]

\* function Id(name): the fields set by the constructor
Id(name) ==
  [ ctor            |-> "Id",
    selectors       |-> "#" \o name,
    currentSelector |-> "id",
    prevSelector    |-> NULL,
    elementCount    |-> 0,
    idCount         |-> 1,
    pseudoElemCount |-> 0 ]

\* Id: this.element
Id_element(self, value) ==
  IF self.elementCount > 0
  THEN Throw(self, DuplicateMessage)
  ELSE
    LET s1 == [self EXCEPT !.prevSelector = self.currentSelector]
        s2 == [s1 EXCEPT !.currentSelector = "element"]
    IN  IF indexOf(ORDER, s2.prevSelector) > indexOf(ORDER, s2.currentSelector)
        THEN Throw(s2, OrderMessage)
        ELSE
          LET s3 == [s2 EXCEPT !.selectors = s2.selectors \o value]
          IN  Return(s3)

\* this.id with its two checks in the other order
Id_id_OrderFirst(self, value) ==
  LET s1 == [self EXCEPT !.prevSelector = self.currentSelector]
      s2 == [s1 EXCEPT !.currentSelector = "id"]
  IN  IF indexOf(ORDER, s2.prevSelector) > indexOf(ORDER, s2.currentSelector)
      THEN Throw(s2, OrderMessage)
      ELSE
        IF s2.idCount > 0
        THEN Throw(s2, DuplicateMessage)
        ELSE
          LET s3 == [s2 EXCEPT !.selectors = s2.selectors \o "#" \o value]
              s4 == [s3 EXCEPT !.idCount = s3.idCount + 1]
          IN  Return(s4)

\* Id: this.id
Id_id(self, value) ==
  IF self.idCount > 0
  THEN Throw(self, DuplicateMessage)
  ELSE
    LET s1 == [self EXCEPT !.prevSelector = self.currentSelector]
        s2 == [s1 EXCEPT !.currentSelector = "id"]
    IN  IF indexOf(ORDER, s2.prevSelector) > indexOf(ORDER, s2.currentSelector)
        THEN Throw(s2, OrderMessage)
        ELSE
          LET s3 == [s2 EXCEPT !.selectors = s2.selectors \o "#" \o value]
              s4 == [s3 EXCEPT !.idCount = s3.idCount + 1]
          IN  Return(s4)

\* Id: this.class
Id_class(self, value) ==
  LET s1 == [self EXCEPT !.prevSelector = self.currentSelector]
      s2 == [s1 EXCEPT !.currentSelector = "class"]
  IN  IF indexOf(ORDER, s2.prevSelector) > indexOf(ORDER, s2.currentSelector)
      THEN Throw(s2, OrderMessage)
      ELSE
        LET s3 == [s2 EXCEPT !.selectors = s2.selectors \o "." \o value]
        IN  Return(s3)

\* Id: this.attr
Id_attr(self, value) ==
  LET s1 == [self EXCEPT !.prevSelector = self.currentSelector]
      s2 == [s1 EXCEPT !.currentSelector = "attribute"]
  IN  IF indexOf(ORDER, s2.prevSelector) > indexOf(ORDER, s2.currentSelector)
      THEN Throw(s2, OrderMessage)
      ELSE
        LET s3 == [s2 EXCEPT !.selectors = s2.selectors \o "[" \o value \o "]"]
        IN  Return(s3)

\* Id: this.pseudoClass
Id_pseudoClass(self, value) ==
  LET s1 == [self EXCEPT !.prevSelector = self.currentSelector]
      s2 == [s1 EXCEPT !.currentSelector = "pseudoClass"]
  IN  IF indexOf(ORDER, s2.prevSelector) > indexOf(ORDER, s2.currentSelector)
      THEN Throw(s2, OrderMessage)
      ELSE
        LET s3 == [s2 EXCEPT !.selectors = s2.selectors \o ":" \o value]
        IN  Return(s3)

\* Id: this.pseudoElement
Id_pseudoElement(self, value) ==
  LET s1 == [self EXCEPT !.prevSelector = self.currentSelector]
      s2 == [s1 EXCEPT !.currentSelector = "pseudoElement"]
  IN  IF indexOf(ORDER, s2.prevSelector) > indexOf(ORDER, s2.currentSelector)
      THEN Throw(s2, OrderMessage)
      ELSE
        IF s2.pseudoElemCount > 0
        THEN Throw(s2, DuplicateMessage)
        ELSE
          LET s3 == [s2 EXCEPT !.pseudoElemCount = s2.pseudoElemCount + 1]
              s4 == [s3 EXCEPT !.selectors = s3.selectors \o "::" \o value]
          IN  Return(s4)

\* Id: this.stringify
Id_stringify(self) ==
  self.selectors

\* function Class(name): the fields set by the constructor
Class(name) ==
  [ ctor            |-> "Class",
    selectors       |-> "." \o name,
    currentSelector |-> "class",
    prevSelector    |-> NULL,
    elementCount    |-> 0,
    idCount         |-> 0,
    pseudoElemCount |-> 0 ]

\* Class: this.element
Class_element(self, value) ==
  IF self.elementCount > 0
  THEN Throw(self, DuplicateMessage)
  ELSE
    LET s1 == [self EXCEPT !.prevSelector = self.currentSelector]
        s2 == [s1 EXCEPT !.currentSelector = "element"]
    IN  IF indexOf(ORDER, s2.prevSelector) > indexOf(ORDER, s2.currentSelector)
        THEN Throw(s2, OrderMessage)
        ELSE
          LET s3 == [s2 EXCEPT !.selectors = s2.selectors \o value]
          IN  Return(s3)

\* Class: this.id
Class_id(self, value) ==
  IF self.idCount > 0
  THEN Throw(self, DuplicateMessage)
  ELSE
    LET s1 == [self EXCEPT !.prevSelector = self.currentSelector]
        s2 == [s1 EXCEPT !.currentSelector = "id"]
    IN  IF indexOf(ORDER, s2.prevSelector) > indexOf(ORDER, s2.currentSelector)
        THEN Throw(s2, OrderMessage)
        ELSE
          LET s3 == [s2 EXCEPT !.selectors = s2.selectors \o "#" \o value]
              s4 == [s3 EXCEPT !.idCount = s3.idCount + 1]
          IN  Return(s4)

\* this.class refusing a kind that repeats: >= where the method has >
Class_class_NoRepeat(self, value) ==
  LET s1 == [self EXCEPT !.prevSelector = self.currentSelector]
      s2 == [s1 EXCEPT !.currentSelector = "class"]
  IN  IF indexOf(ORDER, s2.prevSelector) >= indexOf(ORDER, s2.currentSelector)
      THEN Throw(s2, OrderMessage)
      ELSE
        LET s3 == [s2 EXCEPT !.selectors = s2.selectors \o "." \o value]
        IN  Return(s3)

\* Class: this.class
Class_class(self, value) ==
  LET s1 == [self EXCEPT !.prevSelector = self.currentSelector]
      s2 == [s1 EXCEPT !.currentSelector = "class"]
  IN  IF indexOf(ORDER, s2.prevSelector) > indexOf(ORDER, s2.currentSelector)
      THEN Throw(s2, OrderMessage)
      ELSE
        LET s3 == [s2 EXCEPT !.selectors = s2.selectors \o "." \o value]
        IN  Return(s3)

\* Class: this.attr
Class_attr(self, value) ==
  LET s1 == [self EXCEPT !.prevSelector = self.currentSelector]
      s2 == [s1 EXCEPT !.currentSelector = "attribute"]
  IN  IF indexOf(ORDER, s2.prevSelector) > indexOf(ORDER, s2.currentSelector)
      THEN Throw(s2, OrderMessage)
      ELSE
        LET s3 == [s2 EXCEPT !.selectors = s2.selectors \o "[" \o value \o "]"]
        IN  Return(s3)

\* Class: this.pseudoClass
Class_pseudoClass(self, value) ==
  LET s1 == [self EXCEPT !.prevSelector = self.currentSelector]
      s2 == [s1 EXCEPT !.currentSelector = "pseudoClass"]
  IN  IF indexOf(ORDER, s2.prevSelector) > indexOf(ORDER, s2.currentSelector)
      THEN Throw(s2, OrderMessage)
      ELSE
        LET s3 == [s2 EXCEPT !.selectors = s2.selectors \o ":" \o value]
        IN  Return(s3)

\* Class: this.pseudoElement
Class_pseudoElement(self, value) ==
  LET s1 == [self EXCEPT !.prevSelector = self.currentSelector]
      s2 == [s1 EXCEPT !.currentSelector = "pseudoElement"]
  IN  IF indexOf(ORDER, s2.prevSelector) > indexOf(ORDER, s2.currentSelector)
      THEN Throw(s2, OrderMessage)
      ELSE
        IF s2.pseudoElemCount > 0
        THEN Throw(s2, DuplicateMessage)
        ELSE
          LET s3 == [s2 EXCEPT !.pseudoElemCount = s2.pseudoElemCount + 1]
              s4 == [s3 EXCEPT !.selectors = s3.selectors \o "::" \o value]
          IN  Return(s4)

\* stringify() returning the text without its first character
Class_stringify_Cut(self) ==
  SubSeq(self.selectors, 2, Len(self.selectors))

\* Class: this.stringify
Class_stringify(self) ==
  self.selectors

\* function Attr(name): the fields set by the constructor
Attr(name) ==
  [ ctor            |-> "Attr",
    selectors       |-> "[" \o name \o "]",
    currentSelector |-> "attribute",
    prevSelector    |-> NULL,
    elementCount    |-> 0,
    idCount         |-> 0,
    pseudoElemCount |-> 0 ]

\* Attr: this.element
Attr_element(self, value) ==
  IF self.elementCount > 0
  THEN Throw(self, DuplicateMessage)
  ELSE
    LET s1 == [self EXCEPT !.prevSelector = self.currentSelector]
        s2 == [s1 EXCEPT !.currentSelector = "element"]
    IN  IF indexOf(ORDER, s2.prevSelector) > indexOf(ORDER, s2.currentSelector)
        THEN Throw(s2, OrderMessage)
        ELSE
          LET s3 == [s2 EXCEPT !.selectors = s2.selectors \o value]
          IN  Return(s3)

\* Attr: this.id
Attr_id(self, value) ==
  IF self.idCount > 0
  THEN Throw(self, DuplicateMessage)
  ELSE
    LET s1 == [self EXCEPT !.prevSelector = self.currentSelector]
        s2 == [s1 EXCEPT !.currentSelector = "id"]
    IN  IF indexOf(ORDER, s2.prevSelector) > indexOf(ORDER, s2.currentSelector)
        THEN Throw(s2, OrderMessage)
        ELSE
          LET s3 == [s2 EXCEPT !.selectors = s2.selectors \o "#" \o value]
              s4 == [s3 EXCEPT !.idCount = s3.idCount + 1]
          IN  Return(s4)

\* Attr: this.class
Attr_class(self, value) ==
  LET s1 == [self EXCEPT !.prevSelector = self.currentSelector]
      s2 == [s1 EXCEPT !.currentSelector = "class"]
  IN  IF indexOf(ORDER, s2.prevSelector) > indexOf(ORDER, s2.currentSelector)
      THEN Throw(s2, OrderMessage)
      ELSE
        LET s3 == [s2 EXCEPT !.selectors = s2.selectors \o "." \o value]
        IN  Return(s3)

\* the copy of attr in Attr refusing a kind that repeats: >= where the method has >
Attr_attr_NoRepeat(self, value) ==
  LET s1 == [self EXCEPT !.prevSelector = self.currentSelector]
      s2 == [s1 EXCEPT !.currentSelector = "attribute"]
  IN  IF indexOf(ORDER, s2.prevSelector) >= indexOf(ORDER, s2.currentSelector)
      THEN Throw(s2, OrderMessage)
      ELSE
        LET s3 == [s2 EXCEPT !.selectors = s2.selectors \o "[" \o value \o "]"]
        IN  Return(s3)

\* Attr: this.attr
Attr_attr(self, value) ==
  LET s1 == [self EXCEPT !.prevSelector = self.currentSelector]
      s2 == [s1 EXCEPT !.currentSelector = "attribute"]
  IN  IF indexOf(ORDER, s2.prevSelector) > indexOf(ORDER, s2.currentSelector)
      THEN Throw(s2, OrderMessage)
      ELSE
        LET s3 == [s2 EXCEPT !.selectors = s2.selectors \o "[" \o value \o "]"]
        IN  Return(s3)

\* Attr: this.pseudoClass
Attr_pseudoClass(self, value) ==
  LET s1 == [self EXCEPT !.prevSelector = self.currentSelector]
      s2 == [s1 EXCEPT !.currentSelector = "pseudoClass"]
  IN  IF indexOf(ORDER, s2.prevSelector) > indexOf(ORDER, s2.currentSelector)
      THEN Throw(s2, OrderMessage)
      ELSE
        LET s3 == [s2 EXCEPT !.selectors = s2.selectors \o ":" \o value]
        IN  Return(s3)

\* Attr: this.pseudoElement
Attr_pseudoElement(self, value) ==
  LET s1 == [self EXCEPT !.prevSelector = self.currentSelector]
      s2 == [s1 EXCEPT !.currentSelector = "pseudoElement"]
  IN  IF indexOf(ORDER, s2.prevSelector) > indexOf(ORDER, s2.currentSelector)
      THEN Throw(s2, OrderMessage)
      ELSE
        IF s2.pseudoElemCount > 0
        THEN Throw(s2, DuplicateMessage)
        ELSE
          LET s3 == [s2 EXCEPT !.pseudoElemCount = s2.pseudoElemCount + 1]
              s4 == [s3 EXCEPT !.selectors = s3.selectors \o "::" \o value]
          IN  Return(s4)

\* Attr: this.stringify
Attr_stringify(self) ==
  self.selectors

\* function PseudoClass(name): the fields set by the constructor
PseudoClass(name) ==
  [ ctor            |-> "PseudoClass",
    selectors       |-> ":" \o name,
    currentSelector |-> "pseudoClass",
    prevSelector    |-> NULL,
    elementCount    |-> 0,
    idCount         |-> 0,
    pseudoElemCount |-> 0 ]

\* PseudoClass: this.element
PseudoClass_element(self, value) ==
  IF self.elementCount > 0
  THEN Throw(self, DuplicateMessage)
  ELSE
    LET s1 == [self EXCEPT !.prevSelector = self.currentSelector]
        s2 == [s1 EXCEPT !.currentSelector = "element"]
    IN  IF indexOf(ORDER, s2.prevSelector) > indexOf(ORDER, s2.currentSelector)
        THEN Throw(s2, OrderMessage)
        ELSE
          LET s3 == [s2 EXCEPT !.selectors = s2.selectors \o value]
          IN  Return(s3)

\* PseudoClass: this.id
PseudoClass_id(self, value) ==
  IF self.idCount > 0
  THEN Throw(self, DuplicateMessage)
  ELSE
    LET s1 == [self EXCEPT !.prevSelector = self.currentSelector]
        s2 == [s1 EXCEPT !.currentSelector = "id"]
    IN  IF indexOf(ORDER, s2.prevSelector) > indexOf(ORDER, s2.currentSelector)
        THEN Throw(s2, OrderMessage)
        ELSE
          LET s3 == [s2 EXCEPT !.selectors = s2.selectors \o "#" \o value]
              s4 == [s3 EXCEPT !.idCount = s3.idCount + 1]
          IN  Return(s4)

\* PseudoClass: this.class
PseudoClass_class(self, value) ==
  LET s1 == [self EXCEPT !.prevSelector = self.currentSelector]
      s2 == [s1 EXCEPT !.currentSelector = "class"]
  IN  IF indexOf(ORDER, s2.prevSelector) > indexOf(ORDER, s2.currentSelector)
      THEN Throw(s2, OrderMessage)
      ELSE
        LET s3 == [s2 EXCEPT !.selectors = s2.selectors \o "." \o value]
        IN  Return(s3)

\* PseudoClass: this.attr
PseudoClass_attr(self, value) ==
  LET s1 == [self EXCEPT !.prevSelector = self.currentSelector]
      s2 == [s1 EXCEPT !.currentSelector = "attribute"]
  IN  IF indexOf(ORDER, s2.prevSelector) > indexOf(ORDER, s2.currentSelector)
      THEN Throw(s2, OrderMessage)
      ELSE
        LET s3 == [s2 EXCEPT !.selectors = s2.selectors \o "[" \o value \o "]"]
        IN  Return(s3)

\* PseudoClass: this.pseudoClass
PseudoClass_pseudoClass(self, value) ==
  LET s1 == [self EXCEPT !.prevSelector = self.currentSelector]
      s2 == [s1 EXCEPT !.currentSelector = "pseudoClass"]
  IN  IF indexOf(ORDER, s2.prevSelector) > indexOf(ORDER, s2.currentSelector)
      THEN Throw(s2, OrderMessage)
      ELSE
        LET s3 == [s2 EXCEPT !.selectors = s2.selectors \o ":" \o value]
        IN  Return(s3)

\* PseudoClass: this.pseudoElement
PseudoClass_pseudoElement(self, value) ==
  LET s1 == [self EXCEPT !.prevSelector = self.currentSelector]
      s2 == [s1 EXCEPT !.currentSelector = "pseudoElement"]
  IN  IF indexOf(ORDER, s2.prevSelector) > indexOf(ORDER, s2.currentSelector)
      THEN Throw(s2, OrderMessage)
      ELSE
        IF s2.pseudoElemCount > 0
        THEN Throw(s2, DuplicateMessage)
        ELSE
          LET s3 == [s2 EXCEPT !.pseudoElemCount = s2.pseudoElemCount + 1]
              s4 == [s3 EXCEPT !.selectors = s3.selectors \o "::" \o value]
          IN  Return(s4)

\* PseudoClass: this.stringify
PseudoClass_stringify(self) ==
  self.selectors

\* function PseudoElement(name): the fields set by the constructor
PseudoElement(name) ==
  [ ctor            |-> "PseudoElement",
    selectors       |-> "::" \o name,
    currentSelector |-> "pseudoElement",
    prevSelector    |-> NULL,
    elementCount    |-> 0,
    idCount         |-> 0,
    pseudoElemCount |-> 1 ]

\* PseudoElement: this.element
PseudoElement_element(self, value) ==
  IF self.elementCount > 0
  THEN Throw(self, DuplicateMessage)
  ELSE
    LET s1 == [self EXCEPT !.prevSelector = self.currentSelector]
        s2 == [s1 EXCEPT !.currentSelector = "element"]
    IN  IF indexOf(ORDER, s2.prevSelector) > indexOf(ORDER, s2.currentSelector)
        THEN Throw(s2, OrderMessage)
        ELSE
          LET s3 == [s2 EXCEPT !.selectors = s2.selectors \o value]
          IN  Return(s3)

\* PseudoElement: this.id
PseudoElement_id(self, value) ==
  IF self.idCount > 0
  THEN Throw(self, DuplicateMessage)
  ELSE
    LET s1 == [self EXCEPT !.prevSelector = self.currentSelector]
        s2 == [s1 EXCEPT !.currentSelector = "id"]
    IN  IF indexOf(ORDER, s2.prevSelector) > indexOf(ORDER, s2.currentSelector)
        THEN Throw(s2, OrderMessage)
        ELSE
          LET s3 == [s2 EXCEPT !.selectors = s2.selectors \o "#" \o value]
              s4 == [s3 EXCEPT !.idCount = s3.idCount + 1]
          IN  Return(s4)

\* PseudoElement: this.class
PseudoElement_class(self, value) ==
  LET s1 == [self EXCEPT !.prevSelector = self.currentSelector]
      s2 == [s1 EXCEPT !.currentSelector = "class"]
  IN  IF indexOf(ORDER, s2.prevSelector) > indexOf(ORDER, s2.currentSelector)
      THEN Throw(s2, OrderMessage)
      ELSE
        LET s3 == [s2 EXCEPT !.selectors = s2.selectors \o "." \o value]
        IN  Return(s3)

\* PseudoElement: this.attr
PseudoElement_attr(self, value) ==
  LET s1 == [self EXCEPT !.prevSelector = self.currentSelector]
      s2 == [s1 EXCEPT !.currentSelector = "attribute"]
  IN  IF indexOf(ORDER, s2.prevSelector) > indexOf(ORDER, s2.currentSelector)
      THEN Throw(s2, OrderMessage)
      ELSE
        LET s3 == [s2 EXCEPT !.selectors = s2.selectors \o "[" \o value \o "]"]
        IN  Return(s3)

\* PseudoElement: this.pseudoClass
PseudoElement_pseudoClass(self, value) ==
  LET s1 == [self EXCEPT !.prevSelector = self.currentSelector]
      s2 == [s1 EXCEPT !.currentSelector = "pseudoClass"]
  IN  IF indexOf(ORDER, s2.prevSelector) > indexOf(ORDER, s2.currentSelector)
      THEN Throw(s2, OrderMessage)
      ELSE
        LET s3 == [s2 EXCEPT !.selectors = s2.selectors \o ":" \o value]
        IN  Return(s3)

\* PseudoElement: this.pseudoElement
PseudoElement_pseudoElement(self, value) ==
  LET s1 == [self EXCEPT !.prevSelector = self.currentSelector]
      s2 == [s1 EXCEPT !.currentSelector = "pseudoElement"]
  IN  IF indexOf(ORDER, s2.prevSelector) > indexOf(ORDER, s2.currentSelector)
      THEN Throw(s2, OrderMessage)
      ELSE
        IF s2.pseudoElemCount > 0
        THEN Throw(s2, DuplicateMessage)
        ELSE
          LET s3 == [s2 EXCEPT !.pseudoElemCount = s2.pseudoElemCount + 1]
              s4 == [s3 EXCEPT !.selectors = s3.selectors \o "::" \o value]
          IN  Return(s4)

\* PseudoElement: this.stringify
PseudoElement_stringify(self) ==
  self.selectors

\* stringify() reading the left operand again when it is called, where the
\* class keeps the string its constructor made
Combine_stringify_Live(self) ==
  IF \E j \in 1..Len(combined) : combined[j] = self /\ made[j].left.t = "builder"
  THEN LET j == CHOOSE k \in 1..Len(combined) : combined[k] = self /\ made[k].left.t = "builder"
       IN  builders[made[j].left.n].selectors
             \o SubSeq(self.string, Len(made[j].leftText) + 1, Len(self.string))
  ELSE self.string

\* Combine.stringify
Combine_stringify(self) ==
  self.string

\* the method m of the object self, as the constructor of self installed it
Invoke(self, m, value) ==
  CASE self.ctor = "Element" /\ m = "element" -> Element_element(self, value)
    [] self.ctor = "Element" /\ m = "id" -> Element_id(self, value)
    [] self.ctor = "Element" /\ m = "class" -> Element_class(self, value)
    [] self.ctor = "Element" /\ m = "attr" -> Element_attr(self, value)
    [] self.ctor = "Element" /\ m = "pseudoClass" -> Element_pseudoClass(self, value)
    [] self.ctor = "Element" /\ m = "pseudoElement" -> Element_pseudoElement(self, value)
    [] self.ctor = "Id" /\ m = "element" -> Id_element(self, value)
    [] self.ctor = "Id" /\ m = "id" -> Id_id(self, value)
    [] self.ctor = "Id" /\ m = "class" -> Id_class(self, value)
    [] self.ctor = "Id" /\ m = "attr" -> Id_attr(self, value)
    [] self.ctor = "Id" /\ m = "pseudoClass" -> Id_pseudoClass(self, value)
    [] self.ctor = "Id" /\ m = "pseudoElement" -> Id_pseudoElement(self, value)
    [] self.ctor = "Class" /\ m = "element" -> Class_element(self, value)
    [] self.ctor = "Class" /\ m = "id" -> Class_id(self, value)
    [] self.ctor = "Class" /\ m = "class" -> Class_class(self, value)
    [] self.ctor = "Class" /\ m = "attr" -> Class_attr(self, value)
    [] self.ctor = "Class" /\ m = "pseudoClass" -> Class_pseudoClass(self, value)
    [] self.ctor = "Class" /\ m = "pseudoElement" -> Class_pseudoElement(self, value)
    [] self.ctor = "Attr" /\ m = "element" -> Attr_element(self, value)
    [] self.ctor = "Attr" /\ m = "id" -> Attr_id(self, value)
    [] self.ctor = "Attr" /\ m = "class" -> Attr_class(self, value)
    [] self.ctor = "Attr" /\ m = "attr" -> Attr_attr(self, value)
    [] self.ctor = "Attr" /\ m = "pseudoClass" -> Attr_pseudoClass(self, value)
    [] self.ctor = "Attr" /\ m = "pseudoElement" -> Attr_pseudoElement(self, value)
    [] self.ctor = "PseudoClass" /\ m = "element" -> PseudoClass_element(self, value)
    [] self.ctor = "PseudoClass" /\ m = "id" -> PseudoClass_id(self, value)
    [] self.ctor = "PseudoClass" /\ m = "class" -> PseudoClass_class(self, value)
    [] self.ctor = "PseudoClass" /\ m = "attr" -> PseudoClass_attr(self, value)
    [] self.ctor = "PseudoClass" /\ m = "pseudoClass" -> PseudoClass_pseudoClass(self, value)
    [] self.ctor = "PseudoClass" /\ m = "pseudoElement" -> PseudoClass_pseudoElement(self, value)
    [] self.ctor = "PseudoElement" /\ m = "element" -> PseudoElement_element(self, value)
    [] self.ctor = "PseudoElement" /\ m = "id" -> PseudoElement_id(self, value)
    [] self.ctor = "PseudoElement" /\ m = "class" -> PseudoElement_class(self, value)
    [] self.ctor = "PseudoElement" /\ m = "attr" -> PseudoElement_attr(self, value)
    [] self.ctor = "PseudoElement" /\ m = "pseudoClass" -> PseudoElement_pseudoClass(self, value)
    [] self.ctor = "PseudoElement" /\ m = "pseudoElement" -> PseudoElement_pseudoElement(self, value)

\* obj.stringify(), for a builder of any constructor or a Combine
stringify(obj) ==
  CASE obj.ctor = "Element" -> Element_stringify(obj)
    [] obj.ctor = "Id" -> Id_stringify(obj)
    [] obj.ctor = "Class" -> Class_stringify(obj)
    [] obj.ctor = "Attr" -> Attr_stringify(obj)
    [] obj.ctor = "PseudoClass" -> PseudoClass_stringify(obj)
    [] obj.ctor = "PseudoElement" -> PseudoElement_stringify(obj)
    [] obj.ctor = "Combine" -> Combine_stringify(obj)

\* the constructor joining the three strings with nothing in between
Combine_NoSpaces(selector1, combinator, selector2) ==
  [ctor |-> "Combine",
   string |-> stringify(selector1) \o combinator \o stringify(selector2)]

\* class Combine: the constructor renders both operands at once and keeps the string
Combine(selector1, combinator, selector2) ==
  [ctor |-> "Combine",
   string |-> stringify(selector1) \o " " \o combinator \o " " \o stringify(selector2)]


\* -------------------------------------------------- Rectangle, getJSON, fromJSON
\* the rectangle as it would be had getArea been computed when it was made
Rectangle_getArea_AtConstruction(self) ==
  rectArgs.width * rectArgs.height

\* Rectangle: getArea()
Rectangle_getArea(self) ==
  self.width * self.height

\* function Rectangle(width, height): the object literal; getArea is the method above
Rectangle(width, height) ==
  [width |-> width, height |-> height]

\* ------------------------------------------------ objects and JSON text
\* A flat object is [proto, fields]: fields is the sequence of own properties in
\* insertion order, each [key, value]; a value is a number [t |-> "num", n],
\* a string [t |-> "str", s], a boolean [t |-> "bool", b] or null [t |-> "null"].
ObjectPrototype == "Object.prototype"

\* the decimal digit d as a character, and back
DigitChar(d) == SubSeq("0123456789", d + 1, d + 1)
DigitOf(c) == CHOOSE d \in 0..9 : DigitChar(d) = c
IsDigit(c) == \E d \in 0..9 : DigitChar(d) = c

RECURSIVE NaturalToString(_)
\* Number.prototype.toString for a natural number
NaturalToString(n) ==
  IF n < 10 THEN DigitChar(n) ELSE NaturalToString(n \div 10) \o DigitChar(n % 10)

\* JSON.stringify of an integer
NumberToString(n) == IF n < 0 THEN "-" \o NaturalToString(0 - n) ELSE NaturalToString(n)

RECURSIVE EscapeFrom(_, _)
\* the characters of s from position i on, a quote or a backslash escaped
EscapeFrom(s, i) ==
  IF i > Len(s) THEN ""
  ELSE LET c == SubSeq(s, i, i)
       IN  (IF c = "\"" \/ c = "\\" THEN "\\" \o c ELSE c) \o EscapeFrom(s, i + 1)

\* JSON.stringify of a string
QuoteString(s) == "\"" \o EscapeFrom(s, 1) \o "\""

\* JSON.stringify of a property value
ValueToJSON(v) ==
  CASE v.t = "num" -> NumberToString(v.n)
    [] v.t = "str" -> QuoteString(v.s)
    [] v.t = "bool" -> (IF v.b THEN "true" ELSE "false")
    [] v.t = "null" -> "null"

RECURSIVE MembersToJSON(_, _)
\* "key":value of the properties from position i on, separated by commas
MembersToJSON(fields, i) ==
  IF i > Len(fields) THEN ""
  ELSE (IF i > 1 THEN "," ELSE "")
         \o QuoteString(fields[i].key) \o ":" \o ValueToJSON(fields[i].value)
         \o MembersToJSON(fields, i + 1)

\* JSON.stringify(obj) for a flat object: the prototype is not written
JSONstringify(obj) == "{" \o MembersToJSON(obj.fields, 1) \o "}"

RECURSIVE ParseChars(_, _, _)
\* the string whose characters start at position i (after the opening quote),
\* and the position after its closing quote
ParseChars(s, i, acc) ==
  LET c == SubSeq(s, i, i)
  IN  IF c = "\"" THEN [value |-> acc, next |-> i + 1]
      ELSE IF c = "\\" THEN ParseChars(s, i + 2, acc \o SubSeq(s, i + 1, i + 1))
      ELSE ParseChars(s, i + 1, acc \o c)

RECURSIVE ParseDigits(_, _, _)
\* the natural number whose digits start at position i, and the position after it
ParseDigits(s, i, acc) ==
  IF i <= Len(s) /\ IsDigit(SubSeq(s, i, i))
  THEN ParseDigits(s, i + 1, 10 * acc + DigitOf(SubSeq(s, i, i)))
  ELSE [value |-> acc, next |-> i]

\* the JSON value that starts at position i, and the position after it
ParseValue(s, i) ==
  LET c == SubSeq(s, i, i)
  IN  CASE c = "\"" ->
             LET r == ParseChars(s, i + 1, "")
             IN  [value |-> [t |-> "str", s |-> r.value], next |-> r.next]
        [] c = "-" ->
             LET r == ParseDigits(s, i + 1, 0)
             IN  [value |-> [t |-> "num", n |-> 0 - r.value], next |-> r.next]
        [] c = "t" -> [value |-> [t |-> "bool", b |-> TRUE], next |-> i + 4]
        [] c = "f" -> [value |-> [t |-> "bool", b |-> FALSE], next |-> i + 5]
        [] c = "n" -> [value |-> [t |-> "null"], next |-> i + 4]
        [] OTHER ->
             LET r == ParseDigits(s, i, 0)
             IN  [value |-> [t |-> "num", n |-> r.value], next |-> r.next]

RECURSIVE ParseMembers(_, _, _)
\* the properties written from position i on, up to the closing brace
ParseMembers(s, i, acc) ==
  LET c == SubSeq(s, i, i)
  IN  IF c = "}" THEN acc
      ELSE IF c = "," THEN ParseMembers(s, i + 1, acc)
      ELSE LET k == ParseChars(s, i + 1, "")
               v == ParseValue(s, k.next + 1)
           IN  ParseMembers(s, v.next, Append(acc, [key |-> k.value, value |-> v.value]))

\* JSON.parse(json) for the text of a flat object: a new plain object
JSONparse(json) == [proto |-> ObjectPrototype, fields |-> ParseMembers(json, 2, <<>>)]

\* Object.setPrototypeOf(obj, proto)
setPrototypeOf(obj, proto) == [obj EXCEPT !.proto = proto]

\* function getJSON(obj)
getJSON(obj) ==
  JSONstringify(obj)

\* fromJSON returning what JSON.parse made, its prototype left as it is
fromJSON_PlainObject(proto, json) ==
  JSONparse(json)

\* function fromJSON(proto, json)
fromJSON(proto, json) ==
  LET obj == JSONparse(json)
  IN  setPrototypeOf(obj, proto)

\* ------------------------------------------------- the callers of the facade
BuilderIds == 1..MaxBuilders

Methods == {"element", "id", "class", "attr", "pseudoClass", "pseudoElement"}

NoRef == [t |-> "none", n |-> 0]
BuilderRef(i) == [t |-> "builder", n |-> i]
CombinedRef(j) == [t |-> "combined", n |-> j]

\* the object a reference names
Deref(r) == IF r.t = "builder" THEN builders[r.n] ELSE combined[r.n]

NoSeed == [method |-> "", value |-> ""]

NoCall ==
  [op |-> "none", obj |-> NoRef, method |-> "", value |-> "", thrown |-> NoError,
   ret |-> "", pre |-> NoBuilder, left |-> NoRef, right |-> NoRef]

NoRect == [width |-> 0, height |-> 0, made |-> FALSE]
NoUse == [op |-> "none", ret |-> 0, pre |-> NoRect]
NoObject == [proto |-> "none", fields |-> <<>>]
NoJSON == [obj |-> NoObject, text |-> "", proto |-> "none", result |-> NoObject]

Init ==
  /\ builders = [i \in BuilderIds |-> NoBuilder]
  /\ combined = <<>>
  /\ seed = [i \in BuilderIds |-> NoSeed]
  /\ calls = [i \in BuilderIds |-> <<>>]
  /\ made = <<>>
  /\ last = NoCall
  /\ rect = NoRect
  /\ rectArgs = NoRect
  /\ lastRect = NoUse
  /\ jsonCall = NoJSON

\* an entry point of the facade returns a new object: it takes the first free place
Fresh(i) ==
  /\ builders[i] = NoBuilder
  /\ \A j \in 1..(i - 1) : builders[j] # NoBuilder

\* an entry point handing out one shared object: every builder that exists
\* becomes the new one
NewBuilder_Singleton(i, m, value, obj) ==
  /\ builders' = [j \in BuilderIds |-> IF j = i \/ builders[j] # NoBuilder THEN obj ELSE NoBuilder]
  /\ seed' = [seed EXCEPT ![i] = [method |-> m, value |-> value]]
  /\ last' = [NoCall EXCEPT !.op = "new", !.obj = BuilderRef(i), !.method = m,
                            !.value = value, !.ret = stringify(obj)]
  /\ UNCHANGED <<combined, calls, made>>
  /\ UNCHANGED objvars

\* const elem = new <Ctor>(value); return elem;
NewBuilder(i, m, value, obj) ==
  /\ builders' = [builders EXCEPT ![i] = obj]
  /\ seed' = [seed EXCEPT ![i] = [method |-> m, value |-> value]]
  /\ last' = [NoCall EXCEPT !.op = "new", !.obj = BuilderRef(i), !.method = m,
                            !.value = value, !.ret = stringify(obj)]
  /\ UNCHANGED <<combined, calls, made>>
  /\ UNCHANGED objvars

cssSelectorBuilder_element(i, value) ==
  /\ Fresh(i)
  /\ NewBuilder(i, "element", value, Element(value))

cssSelectorBuilder_id(i, value) ==
  /\ Fresh(i)
  /\ NewBuilder(i, "id", value, Id(value))

cssSelectorBuilder_class(i, value) ==
  /\ Fresh(i)
  /\ NewBuilder(i, "class", value, Class(value))

cssSelectorBuilder_attr(i, value) ==
  /\ Fresh(i)
  /\ NewBuilder(i, "attr", value, Attr(value))

cssSelectorBuilder_pseudoClass(i, value) ==
  /\ Fresh(i)
  /\ NewBuilder(i, "pseudoClass", value, PseudoClass(value))

cssSelectorBuilder_pseudoElement(i, value) ==
  /\ Fresh(i)
  /\ NewBuilder(i, "pseudoElement", value, PseudoElement(value))


\* builders[i].m(value): the receiver keeps what the method assigned, whether it
\* returned or threw
CallMethod(i, m, value) ==
  /\ LET r == Invoke(builders[i], m, value)
     IN  /\ builders' = [builders EXCEPT ![i] = r.self]
         /\ calls' = [calls EXCEPT ![i] =
                        Append(@, [method |-> m, value |-> value, thrown |-> r.thrown])]
         /\ last' = [NoCall EXCEPT !.op = "append", !.obj = BuilderRef(i), !.method = m,
                                   !.value = value, !.thrown = r.thrown,
                                   !.pre = builders[i]]
  /\ UNCHANGED <<combined, seed, made>>
  /\ UNCHANGED objvars

call_element(i, value) ==
  /\ builders[i] # NoBuilder
  /\ Len(calls[i]) < MaxCalls
  /\ CallMethod(i, "element", value)

call_id(i, value) ==
  /\ builders[i] # NoBuilder
  /\ Len(calls[i]) < MaxCalls
  /\ CallMethod(i, "id", value)

call_class(i, value) ==
  /\ builders[i] # NoBuilder
  /\ Len(calls[i]) < MaxCalls
  /\ CallMethod(i, "class", value)

call_attr(i, value) ==
  /\ builders[i] # NoBuilder
  /\ Len(calls[i]) < MaxCalls
  /\ CallMethod(i, "attr", value)

call_pseudoClass(i, value) ==
  /\ builders[i] # NoBuilder
  /\ Len(calls[i]) < MaxCalls
  /\ CallMethod(i, "pseudoClass", value)

call_pseudoElement(i, value) ==
  /\ builders[i] # NoBuilder
  /\ Len(calls[i]) < MaxCalls
  /\ CallMethod(i, "pseudoElement", value)


\* the objects that exist
Refs ==
  {BuilderRef(i) : i \in {j \in BuilderIds : builders[j] # NoBuilder}}
    \cup {CombinedRef(j) : j \in 1..Len(combined)}

\* obj.stringify() on a builder or a combined selector
call_stringify(r) ==
  /\ r \in Refs
  /\ last' = [NoCall EXCEPT !.op = "stringify", !.obj = r, !.ret = stringify(Deref(r)),
                            !.pre = IF r.t = "builder" THEN builders[r.n] ELSE NoBuilder]
  /\ UNCHANGED <<builders, combined, seed, calls, made>>
  /\ UNCHANGED objvars

\* combine writing the combined text into its left operand as well
cssSelectorBuilder_combine_IntoLeft(l, combinator, r) ==
  /\ l \in Refs
  /\ r \in Refs
  /\ Len(combined) < MaxCombined
  /\ LET c == Combine(Deref(l), combinator, Deref(r))
     IN  /\ combined' = Append(combined, c)
         /\ last' = [NoCall EXCEPT !.op = "combine", !.obj = CombinedRef(Len(combined) + 1),
                                   !.value = combinator, !.left = l, !.right = r]
         /\ made' = Append(made, [left |-> l, combinator |-> combinator, right |-> r,
                                  leftText |-> stringify(Deref(l)),
                                  rightText |-> stringify(Deref(r)),
                                  text |-> c.string])
         /\ builders' = IF l.t = "builder"
                        THEN [builders EXCEPT ![l.n].selectors = c.string]
                        ELSE builders
  /\ UNCHANGED <<seed, calls>>
  /\ UNCHANGED objvars

\* cssSelectorBuilder.combine(selector1, combinator, selector2)
cssSelectorBuilder_combine(l, combinator, r) ==
  /\ l \in Refs
  /\ r \in Refs
  /\ Len(combined) < MaxCombined
  /\ LET c == Combine(Deref(l), combinator, Deref(r))
     IN  /\ combined' = Append(combined, c)
         /\ last' = [NoCall EXCEPT !.op = "combine", !.obj = CombinedRef(Len(combined) + 1),
                                   !.value = combinator, !.left = l, !.right = r]
         /\ made' = Append(made, [left |-> l, combinator |-> combinator, right |-> r,
                                  leftText |-> stringify(Deref(l)),
                                  rightText |-> stringify(Deref(r)),
                                  text |-> c.string])
  /\ UNCHANGED <<builders, seed, calls>>
  /\ UNCHANGED objvars

\* one builder and every chain of calls on it
Next ==
  \/ \E v \in Values : cssSelectorBuilder_element(1, v)
  \/ \E v \in Values : cssSelectorBuilder_id(1, v)
  \/ \E v \in Values : cssSelectorBuilder_class(1, v)
  \/ \E v \in Values : cssSelectorBuilder_attr(1, v)
  \/ \E v \in Values : cssSelectorBuilder_pseudoClass(1, v)
  \/ \E v \in Values : cssSelectorBuilder_pseudoElement(1, v)
  \/ \E v \in Values : call_element(1, v)
  \/ \E v \in Values : call_id(1, v)
  \/ \E v \in Values : call_class(1, v)
  \/ \E v \in Values : call_attr(1, v)
  \/ \E v \in Values : call_pseudoClass(1, v)
  \/ \E v \in Values : call_pseudoElement(1, v)
  \/ call_stringify(BuilderRef(1))

Spec == Init /\ [][Next]_vars

RECURSIVE CallsUpTo(_)
\* the append calls made so far on builders 1..n
CallsUpTo(n) == IF n = 0 THEN 0 ELSE Len(calls[n]) + CallsUpTo(n - 1)

\* the append calls made so far, all builders together
TotalCalls == CallsUpTo(MaxBuilders)

\* several builders, the selectors combined from them, and calls made on the
\* builders before and after they were combined
NextCombine ==
  \/ \E i \in BuilderIds, v \in CombineValues : cssSelectorBuilder_element(i, v)
  \/ \E i \in BuilderIds, v \in CombineValues : cssSelectorBuilder_id(i, v)
  \/ \E i \in BuilderIds, v \in CombineValues : cssSelectorBuilder_class(i, v)
  \/ \E i \in BuilderIds, v \in CombineValues : cssSelectorBuilder_attr(i, v)
  \/ \E i \in BuilderIds, v \in CombineValues : cssSelectorBuilder_pseudoClass(i, v)
  \/ \E i \in BuilderIds, v \in CombineValues : cssSelectorBuilder_pseudoElement(i, v)
  \/ \E i \in BuilderIds, v \in CombineValues : TotalCalls < MaxCombineCalls /\ call_element(i, v)
  \/ \E i \in BuilderIds, v \in CombineValues : TotalCalls < MaxCombineCalls /\ call_id(i, v)
  \/ \E i \in BuilderIds, v \in CombineValues : TotalCalls < MaxCombineCalls /\ call_class(i, v)
  \/ \E i \in BuilderIds, v \in CombineValues : TotalCalls < MaxCombineCalls /\ call_attr(i, v)
  \/ \E i \in BuilderIds, v \in CombineValues : TotalCalls < MaxCombineCalls /\ call_pseudoClass(i, v)
  \/ \E i \in BuilderIds, v \in CombineValues : TotalCalls < MaxCombineCalls /\ call_pseudoElement(i, v)
  \/ \E j \in 1..Len(combined) : call_stringify(CombinedRef(j))
  \/ \E l \in Refs, r \in Refs, t \in Tokens : cssSelectorBuilder_combine(l, t, r)

SpecCombine == Init /\ [][NextCombine]_vars

selvars == <<builders, combined, seed, calls, made, last>>

\* the two builders of SpecTwins
TwinIds == {1, 2}

\* two builders, made by any two entry points, and the calls made on them
NextTwins ==
  \/ \E i \in TwinIds, v \in TwinValues : cssSelectorBuilder_element(i, v)
  \/ \E i \in TwinIds, v \in TwinValues : cssSelectorBuilder_id(i, v)
  \/ \E i \in TwinIds, v \in TwinValues : cssSelectorBuilder_class(i, v)
  \/ \E i \in TwinIds, v \in TwinValues : cssSelectorBuilder_attr(i, v)
  \/ \E i \in TwinIds, v \in TwinValues : cssSelectorBuilder_pseudoClass(i, v)
  \/ \E i \in TwinIds, v \in TwinValues : cssSelectorBuilder_pseudoElement(i, v)
  \/ \E i \in TwinIds, v \in TwinValues : TotalCalls < MaxTwinCalls /\ call_element(i, v)
  \/ \E i \in TwinIds, v \in TwinValues : TotalCalls < MaxTwinCalls /\ call_id(i, v)
  \/ \E i \in TwinIds, v \in TwinValues : TotalCalls < MaxTwinCalls /\ call_class(i, v)
  \/ \E i \in TwinIds, v \in TwinValues : TotalCalls < MaxTwinCalls /\ call_attr(i, v)
  \/ \E i \in TwinIds, v \in TwinValues : TotalCalls < MaxTwinCalls /\ call_pseudoClass(i, v)
  \/ \E i \in TwinIds, v \in TwinValues : TotalCalls < MaxTwinCalls /\ call_pseudoElement(i, v)

SpecTwins == Init /\ [][NextTwins]_vars

Dims == (0 - MaxDim)..MaxDim

\* const r = new Rectangle(width, height)
call_Rectangle(width, height) ==
  /\ rect' = Rectangle(width, height)
  /\ rectArgs' = [width |-> width, height |-> height]
  /\ lastRect' = [op |-> "new", ret |-> 0, pre |-> rect]
  /\ UNCHANGED <<selvars, jsonCall>>

\* r.width = value, by the holder of the rectangle
assign_width(value) ==
  /\ rect # NoRect
  /\ rect' = [rect EXCEPT !.width = value]
  /\ lastRect' = [op |-> "width", ret |-> 0, pre |-> rect]
  /\ UNCHANGED <<selvars, rectArgs, jsonCall>>

\* r.height = value, by the holder of the rectangle
assign_height(value) ==
  /\ rect # NoRect
  /\ rect' = [rect EXCEPT !.height = value]
  /\ lastRect' = [op |-> "height", ret |-> 0, pre |-> rect]
  /\ UNCHANGED <<selvars, rectArgs, jsonCall>>

\* r.getArea()
call_getArea ==
  /\ rect # NoRect
  /\ lastRect' = [op |-> "getArea", ret |-> Rectangle_getArea(rect), pre |-> rect]
  /\ UNCHANGED <<selvars, rect, rectArgs, jsonCall>>

\* a rectangle, its fields reassigned, its area asked for
NextRectangle ==
  \/ \E w \in Dims, h \in Dims : call_Rectangle(w, h)
  \/ \E v \in Dims : assign_width(v)
  \/ \E v \in Dims : assign_height(v)
  \/ call_getArea

SpecRectangle == Init /\ [][NextRectangle]_vars

\* the values of the data fields given to getJSON
JsonValues ==
  {[t |-> "num", n |-> 0], [t |-> "num", n |-> 10], [t |-> "num", n |-> 0 - 3],
   [t |-> "str", s |-> "a"], [t |-> "str", s |-> "a\"b\\"],
   [t |-> "bool", b |-> TRUE], [t |-> "null"]}

\* the objects given to getJSON: no field, width alone, width and height in
\* either order
JsonObjects ==
  {[proto |-> ObjectPrototype, fields |-> <<>>]}
    \cup {[proto |-> ObjectPrototype, fields |-> <<[key |-> "width", value |-> v]>>] :
            v \in JsonValues}
    \cup {[proto |-> ObjectPrototype,
            fields |-> <<[key |-> k[1], value |-> v], [key |-> k[2], value |-> w]>>] :
            k \in {<<"width", "height">>, <<"height", "width">>},
            v \in JsonValues, w \in JsonValues}

\* the prototypes given to fromJSON
Protos == {"Rectangle.prototype", "Circle.prototype"}

\* const text = getJSON(obj)
call_getJSON(obj) ==
  /\ jsonCall' = [NoJSON EXCEPT !.obj = obj, !.text = getJSON(obj)]
  /\ UNCHANGED <<selvars, rect, rectArgs, lastRect>>

\* fromJSON(proto, text), text being what getJSON returned
call_fromJSON(proto) ==
  /\ jsonCall.obj # NoObject
  /\ jsonCall' = [jsonCall EXCEPT !.proto = proto, !.result = fromJSON(proto, jsonCall.text)]
  /\ UNCHANGED <<selvars, rect, rectArgs, lastRect>>

\* an object written as JSON text and read back
NextJSON ==
  \/ \E obj \in JsonObjects : call_getJSON(obj)
  \/ \E proto \in Protos : call_fromJSON(proto)

SpecJSON == Init /\ [][NextJSON]_vars

\* ------------------------------------------------- what the design states
\* the rank of a fragment kind in element, id, class, attribute, pseudoClass, pseudoElement
Rank(m) ==
  CASE m = "element" -> 1
    [] m = "id" -> 2
    [] m = "class" -> 3
    [] m \in {"attr", "attribute"} -> 4
    [] m = "pseudoClass" -> 5
    [] m = "pseudoElement" -> 6
    [] OTHER -> 0

\* the rendering of one fragment: value, #value, .value, [value], :value, ::value
Rendering(f) ==
  CASE f.method = "element" -> f.value
    [] f.method = "id" -> "#" \o f.value
    [] f.method = "class" -> "." \o f.value
    [] f.method = "attr" -> "[" \o f.value \o "]"
    [] f.method = "pseudoClass" -> ":" \o f.value
    [] f.method = "pseudoElement" -> "::" \o f.value

RECURSIVE Rendered(_)
\* the renderings of the fragments fs, one after the other
Rendered(fs) ==
  IF fs = <<>> THEN "" ELSE Rendering(Head(fs)) \o Rendered(Tail(fs))

Capped == {"element", "id", "pseudoElement"}

\* a call or a seed, as the fragment it asks for
AsFragment(c) == [method |-> c.method, value |-> c.value]

RECURSIVE Returned(_)
\* the calls of cs that returned, as fragments
Returned(cs) ==
  IF cs = <<>> THEN <<>>
  ELSE IF Head(cs).thrown = NoError
       THEN <<AsFragment(Head(cs))>> \o Returned(Tail(cs))
       ELSE Returned(Tail(cs))

\* every call of cs, returned or not, as a fragment
Asked(cs) == [p \in 1..Len(cs) |-> AsFragment(cs[p])]

\* the fragments builder i carries: its seed, then the appends that returned
Fragments(i) == <<seed[i]>> \o Returned(calls[i])

\* the fragments builder i carried before the call made last on it
FragmentsBefore(i) == <<seed[i]>> \o Returned(SubSeq(calls[i], 1, Len(calls[i]) - 1))

CountOf(fs, m) == Cardinality({p \in 1..Len(fs) : fs[p].method = m})

NonDecreasing(fs) == \A p \in 1..(Len(fs) - 1) : Rank(fs[p].method) <= Rank(fs[p + 1].method)

\* a valid ordering of kinds: ranks never decrease, the capped kinds occur at most once
ValidOrdering(fs) ==
  /\ NonDecreasing(fs)
  /\ \A m \in Capped : CountOf(fs, m) <= 1

Exists(i) == builders[i] # NoBuilder

\* the call made last is an append call on builder i
Appended(i) == last.op = "append" /\ last.obj = BuilderRef(i)

\* the count a capped method tests before it appends
SeenCount(b, m) ==
  CASE m = "element" -> b.elementCount
    [] m = "id" -> b.idCount
    [] m = "pseudoElement" -> b.pseudoElemCount

\* C1: a chain of calls in a valid ordering of kinds, the seed included, has no
\* failing call, and stringify() returns the renderings of the seed and of every
\* call, in call order
C1_ValidChainRendersInCallOrder ==
  \A i \in BuilderIds :
    (Exists(i) /\ ValidOrdering(<<seed[i]>> \o Asked(calls[i])))
      => /\ \A p \in 1..Len(calls[i]) : calls[i][p].thrown = NoError
         /\ stringify(builders[i]) = Rendered(<<seed[i]>> \o Asked(calls[i]))

\* a valid chain as long as the bound allows, with a kind that repeats
C1_Witness ==
  /\ Exists(1)
  /\ Len(calls[1]) = MaxCalls
  /\ ValidOrdering(<<seed[1]>> \o Asked(calls[1]))
  /\ \E p \in 1..(Len(calls[1]) - 1) : calls[1][p].method = calls[1][p + 1].method
  /\ calls[1][Len(calls[1])].method = "pseudoElement"

\* C2: after any calls, failed ones included, the fragments a builder carries are
\* in non-decreasing rank order
C2_FragmentsNeverDecreaseInRank ==
  \A i \in BuilderIds : Exists(i) => NonDecreasing(Fragments(i))

\* C3: after any calls, a builder carries at most one element, one id and one
\* pseudoElement fragment, the seed counted
C3_CappedKindsAtMostOnce ==
  \A i \in BuilderIds : Exists(i) => \A m \in Capped : CountOf(Fragments(i), m) <= 1

\* C4: element, id or pseudoElement called on a builder that already carries a
\* fragment of that kind fails with the duplicate-fragment error and appends nothing
C4_SecondCappedFragmentIsRefused ==
  \A i \in BuilderIds :
    (Appended(i) /\ last.method \in Capped /\ CountOf(FragmentsBefore(i), last.method) > 0)
      => /\ last.thrown = DuplicateMessage
         /\ stringify(builders[i]) = stringify(last.pre)

\* C5: an append of a kind ranked strictly below the fragment appended last, with
\* no duplicate to report, fails with the sequence-order error and appends nothing
C5_LowerRankAfterHigherIsRefused ==
  \A i \in BuilderIds :
    (/\ Appended(i)
     /\ LET before == FragmentsBefore(i)
        IN  /\ Rank(last.method) < Rank(before[Len(before)].method)
            /\ ~(last.method \in Capped /\ CountOf(before, last.method) > 0))
      => /\ last.thrown = OrderMessage
         /\ stringify(builders[i]) = stringify(last.pre)

\* C6: a call that fails leaves the text, the last kind and the three counters of
\* the builder as they were before the call
C6_FailedCallChangesNothing ==
  \A i \in BuilderIds :
    (Appended(i) /\ last.thrown # NoError)
      => /\ builders[i].selectors = last.pre.selectors
         /\ builders[i].currentSelector = last.pre.currentSelector
         /\ builders[i].elementCount = last.pre.elementCount
         /\ builders[i].idCount = last.pre.idCount
         /\ builders[i].pseudoElemCount = last.pre.pseudoElemCount

\* C7: when the occurrence check and the ordering check would both refuse a call
\* of element, id or pseudoElement, the call fails with the duplicate-fragment error
C7_DuplicateBeatsOutOfOrder ==
  \A i \in BuilderIds :
    (/\ Appended(i)
     /\ last.method \in Capped
     /\ SeenCount(last.pre, last.method) > 0
     /\ \/ Rank(last.pre.currentSelector) > Rank(last.method)
        \/ LET before == FragmentsBefore(i)
           IN  Rank(before[Len(before)].method) > Rank(last.method))
      => last.thrown = DuplicateMessage

\* id called on a builder that has its id and a class after it
C7_Witness ==
  /\ Appended(1)
  /\ last.method = "id"
  /\ last.pre.idCount > 0
  /\ Rank(last.pre.currentSelector) > Rank("id")
  /\ last.thrown = DuplicateMessage

\* C8: the text of a builder is the rendering of its seed followed by the
\* renderings of the appends that returned, in call order; a failed call adds
\* no character
C8_TextIsSeedThenReturnedAppends ==
  \A i \in BuilderIds :
    Exists(i)
      => /\ stringify(builders[i]) = Rendered(Fragments(i))
         /\ (Appended(i) /\ last.thrown # NoError)
              => stringify(builders[i]) = stringify(last.pre)

\* a failed call made after two appends that returned
C8_Witness ==
  /\ Appended(1)
  /\ last.thrown # NoError
  /\ Len(Fragments(1)) = 3
  /\ Fragments(1)[2].value # Fragments(1)[3].value

RECURSIVE Expanded(_)
\* what combined[j] is to render: the text its operands had when combine was
\* called (a combined operand expanded in turn), one space, the token, one space
Expanded(j) ==
  LET side(ref, text) == IF ref.t = "combined" THEN Expanded(ref.n) ELSE text
  IN  side(made[j].left, made[j].leftText) \o " " \o made[j].combinator \o " "
        \o side(made[j].right, made[j].rightText)

\* C9: combine(left, token, right).stringify() is left.stringify(), one space, the
\* token as given, one space, right.stringify(), for any token and for operands
\* that are builders or combined selectors
C9_CombineJoinsWithOneSpaceEachSide ==
  \A j \in 1..Len(combined) :
    /\ stringify(combined[j])
         = made[j].leftText \o " " \o made[j].combinator \o " " \o made[j].rightText
    /\ stringify(combined[j]) = Expanded(j)

\* a combined selector whose operand is a combined selector, with a token that is
\* no combinator
C9_Witness ==
  \E j \in 1..Len(combined) :
    /\ made[j].left.t = "combined" \/ made[j].right.t = "combined"
    /\ made[j].combinator = "?"
    /\ last.op = "combine"

\* C10: what a combined selector renders is fixed when combine is called; calls
\* made later on its operands, returning or failing, do not change it
C10_CombinedSelectorIsImmutable ==
  \A j \in 1..Len(combined) :
    /\ stringify(combined[j]) = made[j].text
    /\ (last.op = "stringify" /\ last.obj = CombinedRef(j)) => last.ret = made[j].text

\* stringify() of a combined selector whose left operand has grown since
C10_Witness ==
  \E j \in 1..Len(combined) :
    /\ made[j].left.t = "builder"
    /\ stringify(builders[made[j].left.n]) # made[j].leftText
    /\ last.op = "stringify"
    /\ last.obj = CombinedRef(j)

\* the name a method gives its kind in currentSelector
KindName(m) == IF m = "attr" THEN "attribute" ELSE m

\* C11: combine returns a combined selector for any operands and token and leaves
\* every builder's fields and record of calls as they were; the only failures of
\* the API are the two errors of the append methods
C11_CombineNeverFailsNorTouchesOperands ==
  /\ [](/\ last.op = "combine" => (last.thrown = NoError /\ last.obj = CombinedRef(Len(combined)))
        /\ last.thrown # NoError
             => (last.op = "append" /\ last.thrown \in {DuplicateMessage, OrderMessage}))
  /\ [][Len(combined') > Len(combined)
          => /\ builders' = builders
             /\ calls' = calls
             /\ seed' = seed
             /\ SubSeq(combined', 1, Len(combined)) = combined]_vars

\* combine called with a builder whose last append failed
C11_Witness ==
  /\ last.op = "combine"
  /\ last.left.t = "builder"
  /\ calls[last.left.n] # <<>>
  /\ calls[last.left.n][Len(calls[last.left.n])].thrown # NoError

\* C12: an append that returns has changed the builder it was called on, and an
\* append or an entry point changes no other builder: the builders are independent
C12_BuildersAreIndependent ==
  [][\A i \in BuilderIds :
       /\ calls'[i] # calls[i]
            => /\ \A j \in BuilderIds \ {i} :
                    builders'[j] = builders[j] /\ calls'[j] = calls[j] /\ seed'[j] = seed[j]
               /\ last'.obj = BuilderRef(i)
               /\ last'.thrown = NoError
                    => stringify(builders'[i])
                         = stringify(builders[i]) \o Rendering(AsFragment(last'))
       /\ (builders[i] = NoBuilder /\ builders'[i] # NoBuilder)
            => \A j \in BuilderIds \ {i} :
                 builders'[j] = builders[j] /\ calls'[j] = calls[j] /\ seed'[j] = seed[j]]_vars

\* a second builder made after an append on the first returned
C12_Witness ==
  /\ Exists(1)
  /\ Exists(2)
  /\ last.op = "new"
  /\ last.obj = BuilderRef(2)
  /\ calls[1] # <<>>
  /\ calls[1][1].thrown = NoError

\* C13: the builder an entry point returns has the rendering of its fragment as
\* text, the kind as last kind, the counter of a capped kind at 1 and the other
\* counters at 0, and the next call on it is tested against that kind
C13_EntryPointSeedsTheBuilder ==
  \A i \in BuilderIds :
    (last.op = "new" /\ last.obj = BuilderRef(i))
      => LET b == builders[i]
             k == seed[i].method
         IN  /\ stringify(b) = Rendering(seed[i])
             /\ last.ret = Rendering(seed[i])
             /\ b.currentSelector = KindName(k)
             /\ b.elementCount = (IF k = "element" THEN 1 ELSE 0)
             /\ b.idCount = (IF k = "id" THEN 1 ELSE 0)
             /\ b.pseudoElemCount = (IF k = "pseudoElement" THEN 1 ELSE 0)
             /\ \A m \in Methods, v \in Values :
                  Invoke(b, m, v).thrown
                    = (IF m \in Capped /\ m = k THEN DuplicateMessage
                       ELSE IF Rank(m) < Rank(k) THEN OrderMessage
                       ELSE NoError)

\* the builder the id entry point returned
C13_Witness ==
  /\ last.op = "new"
  /\ last.obj = BuilderRef(1)
  /\ last.method = "id"

\* C14: stringify() on a builder returns its text, whatever calls came before,
\* and changes none of its fields; with no append made it returns the rendering
\* of the seed
C14_StringifyReadsOnly ==
  \A i \in BuilderIds :
    (last.op = "stringify" /\ last.obj = BuilderRef(i))
      => /\ last.thrown = NoError
         /\ last.ret = last.pre.selectors
         /\ last.ret = Rendered(Fragments(i))
         /\ builders[i] = last.pre
         /\ calls[i] = <<>> => last.ret = Rendering(seed[i])

\* stringify() called after an append that failed
C14_Witness ==
  /\ last.op = "stringify"
  /\ last.obj = BuilderRef(1)
  /\ calls[1] # <<>>
  /\ calls[1][Len(calls[1])].thrown # NoError

\* the failed call made last on builder i was refused by the occurrence check
RefusedAsDuplicate(i) ==
  /\ last.method \in Capped
  /\ SeenCount(last.pre, last.method) > 0

\* C15 as stated: a duplicate-fragment failure carries the message with "than"
\* and a final period, a sequence-order failure the message with a final period
C15_MessagesAsStated ==
  \A i \in BuilderIds :
    (Appended(i) /\ last.thrown # NoError)
      => last.thrown
           = (IF RefusedAsDuplicate(i)
              THEN "Element, id and pseudo-element should not occur more than one time inside the selector."
              ELSE "Selector parts should be arranged in the following order: element, id, class, attribute, pseudo-class, pseudo-element.")

\* C15: a duplicate-fragment failure carries the message with "then" and no final
\* period, a sequence-order failure the message with no final period, whatever
\* constructor made the builder
C15_MessagesOfTheCode ==
  \A i \in BuilderIds :
    (Appended(i) /\ last.thrown # NoError)
      => last.thrown
           = (IF RefusedAsDuplicate(i)
              THEN "Element, id and pseudo-element should not occur more then one time inside the selector"
              ELSE "Selector parts should be arranged in the following order: element, id, class, attribute, pseudo-class, pseudo-element")

\* a call refused by the occurrence check, on a builder whose first call was
\* refused by the ordering check
C15_Witness ==
  /\ Appended(1)
  /\ last.thrown # NoError
  /\ RefusedAsDuplicate(1)
  /\ calls[1][1].thrown # NoError
  /\ ~(calls[1][1].method \in Capped)

\* C18: the last kind of a builder is the kind of the fragment appended last, the
\* seed when no append returned
C18_LastKindIsLastFragment ==
  \A i \in BuilderIds :
    Exists(i)
      => builders[i].currentSelector
           = KindName(Fragments(i)[Len(Fragments(i))].method)

\* C19: each counter of a builder is above 0 exactly when the builder carries a
\* fragment of its kind
C19_CountersAgreeWithFragments ==
  \A i \in BuilderIds :
    Exists(i)
      => \A m \in Capped : (SeenCount(builders[i], m) > 0) <=> (CountOf(Fragments(i), m) > 0)

\* C16: Rectangle(width, height) returns an object with those two fields, and
\* getArea() returns the product of the values the fields have when it is
\* called and changes neither
C16_GetAreaIsProductOfCurrentFields ==
  /\ lastRect.op = "new" => (rect.width = rectArgs.width /\ rect.height = rectArgs.height)
  /\ lastRect.op = "getArea"
       => /\ lastRect.ret = rect.width * rect.height
          /\ rect = lastRect.pre

\* getArea() called after both fields were given values other than the arguments
C16_Witness ==
  /\ lastRect.op = "getArea"
  /\ rect.width # rectArgs.width
  /\ rect.height # rectArgs.height
  /\ rect.width * rect.height # rectArgs.width * rectArgs.height

\* the value of the own property key of obj
FieldOf(obj, key) ==
  (CHOOSE p \in 1..Len(obj.fields) : obj.fields[p].key = key)

HasNumber(obj, key) ==
  \E p \in 1..Len(obj.fields) : obj.fields[p].key = key /\ obj.fields[p].value.t = "num"

\* getArea of a prototype, called on obj: this.width * this.height
ProtoGetArea(obj) ==
  obj.fields[FieldOf(obj, "width")].value.n * obj.fields[FieldOf(obj, "height")].value.n

Constructors == {"Element", "Id", "Class", "Attr", "PseudoClass", "PseudoElement"}

\* equal text, last kind and counters
SameState(b1, b2) ==
  /\ b1.selectors = b2.selectors
  /\ b1.currentSelector = b2.currentSelector
  /\ b1.elementCount = b2.elementCount
  /\ b1.idCount = b2.idCount
  /\ b1.pseudoElemCount = b2.pseudoElemCount

\* the same outcome: both return or both throw the same error, and the
\* receivers are left in equal states
SameOutcome(r1, r2) ==
  /\ r1.thrown = r2.thrown
  /\ SameState(r1.self, r2.self)

\* C20: the methods of the six constructors do the same: two builders with equal
\* text, last kind and counters answer every append call alike, and the methods
\* any other constructor would have installed answer alike on the same fields
C20_ConstructorsAreOneStateMachine ==
  /\ \A i \in TwinIds, j \in TwinIds :
       (Exists(i) /\ Exists(j) /\ SameState(builders[i], builders[j]))
         => \A m \in Methods, v \in TwinValues :
              SameOutcome(Invoke(builders[i], m, v), Invoke(builders[j], m, v))
  /\ \A i \in TwinIds :
       (Exists(i) /\ last.obj = BuilderRef(i))
         => \A m \in Methods, v \in TwinValues :
              LET r == Invoke(builders[i], m, v)
              IN  \A c \in Constructors, p \in {NULL, "element", "pseudoElement"} :
                    SameOutcome(r, Invoke([builders[i] EXCEPT !.ctor = c, !.prevSelector = p],
                                          m, v))

\* two builders of different constructors that have come to equal text, last
\* kind and counters
C20_Witness ==
  /\ Exists(1)
  /\ Exists(2)
  /\ builders[1].ctor # builders[2].ctor
  /\ SameState(builders[1], builders[2])
  /\ last.op = "append"
  /\ last.thrown = NoError

\* C21: on a builder that carries a pseudoElement fragment every append call,
\* of any of the six kinds and however many were refused before it, fails with
\* one of the two errors and leaves the text as it was
C21_PseudoElementCompletesTheBuilder ==
  \A i \in BuilderIds :
    (Appended(i) /\ CountOf(FragmentsBefore(i), "pseudoElement") > 0)
      => /\ last.thrown \in {DuplicateMessage, OrderMessage}
         /\ stringify(builders[i]) = stringify(last.pre)

\* s is the beginning of t
IsPrefix(s, t) == Len(s) <= Len(t) /\ SubSeq(t, 1, Len(s)) = s

\* C22: the text of a builder at any point is the beginning of its text at every
\* later point: each step leaves the text or adds characters at its end
C22_TextOnlyGrowsAtTheEnd ==
  [][\A i \in BuilderIds :
       Exists(i) => (Exists(i)' /\ IsPrefix(stringify(builders[i]), stringify(builders[i])'))]_vars

\* a builder whose text has grown twice, with a failed call in between
C22_Witness ==
  /\ Appended(1)
  /\ last.thrown = NoError
  /\ Len(calls[1]) = 3
  /\ calls[1][1].thrown = NoError
  /\ calls[1][2].thrown # NoError
  /\ calls[1][1].method = "attr"

====
